---- MODULE Spec2Model ----
(***************************************************************************)
(* A model of lib/maybe.ts and lib/tuple.ts.                               *)
(*                                                                         *)
(* Maybe values are objects with identity: `heap` is the sequence of the   *)
(* Just/Nothing objects allocated so far and a Maybe is the index of its   *)
(* object.  Every library function is an operator from a heap and its      *)
(* arguments to an outcome: the heap after the call, the returned value,   *)
(* how often a caller-supplied function was invoked, and whether the call  *)
(* threw.  A run builds some Maybe values with of/zero and then makes one  *)
(* library call.                                                           *)
(***************************************************************************)
EXTENDS Integers, Sequences, FiniteSets, TLC

\* Numbers the caller passes in are 0..MaxVal.
MaxVal == 1
\* The caller builds at most MaxArgs Maybe values before the call.
MaxArgs == 3

VARIABLES heap, pc, call, ret
vars == <<heap, pc, call, ret>>

(***************************************************************************)
(* JavaScript values.  Each is a record with its own field name, so that   *)
(* values of different kinds are unequal.                                  *)
(***************************************************************************)
Num(n) == [num |-> n]
Bool(b) == [bool |-> b]
Fn(f) == [fn |-> f]
Ref(r) == [ref |-> r]
Unit == [unit |-> TRUE]
Undefined == [undefined |-> TRUE]
TypeError == [error |-> "TypeError"]

\* The outcome of a call that returns v after n invocations of caller code.
Ret(h, v, n) == [heap |-> h, val |-> v, calls |-> n, threw |-> FALSE]
\* The outcome of a call that throws.
Throw(h, e, n) == [heap |-> h, val |-> e, calls |-> n, threw |-> TRUE]

(***************************************************************************)
(* lib/tuple.ts                                                            *)
(***************************************************************************)
Tuple_of(a, b) == [fst |-> a, snd |-> b]

\* Caller-supplied binary functions, named by a one-element sequence.
BinaryFns == {<<"sub">>, <<"Tuple.of">>}
ApplyBinary(fn, a, b) ==
  IF Head(fn) = "sub" THEN Num(a.num - b.num) ELSE Tuple_of(a, b)

\* tuple(fn) is the closure `tupled` holding fn; tupled is its body.
tuple(fn) == <<"tupled">> \o fn
tupled(fn, t) == ApplyBinary(fn, t.fst, t.snd)

\* Caller-supplied functions of one Tuple: a closure made by tuple, or a
\* projection.
ApplyOnTuple(fn, t) ==
  IF Head(fn) = "tupled" THEN tupled(Tail(fn), t)
  ELSE IF Head(fn) = "fst" THEN t.fst ELSE t.snd

\* curryTuple rebuilding the pair with its fields exchanged.
curryTupleSwapped(fn, fst, snd) == ApplyOnTuple(fn, [fst |-> snd, snd |-> fst])

\* curryTuple(fn)(fst)(snd) and curry(fn)(fst)(snd), both stages applied.
curryTuple(fn, fst, snd) == ApplyOnTuple(fn, [fst |-> fst, snd |-> snd])
curry(fn, fst, snd) == ApplyBinary(fn, fst, snd)

(***************************************************************************)
(* Functions as values.  A caller-supplied function is named by a sequence *)
(* of primitives: <<f>> is f, and <<f, g>> is f followed by g.  An arrow   *)
(* function of the library is a closure: a record of its place in the     *)
(* source (code) and the variables it captured.  Invoke calls a closure.   *)
(***************************************************************************)
UnaryPrims == {"inc", "dbl"}
KleisliPrims == {"of", "half", "none"}
RECURSIVE ApplyKleisli(_, _, _)
RECURSIVE Invoke(_, _, _)

(***************************************************************************)
(* lib/maybe.ts: the classes                                               *)
(***************************************************************************)
NewJust(h, value) ==
  Ret(Append(h, [tag |-> "Just", value |-> value]), Ref(Len(h) + 1), 0)
NewNothing(h) ==
  Ret(Append(h, [tag |-> "Nothing"]), Ref(Len(h) + 1), 0)

\* isJust answering true for both classes.
isJustAlways(h, m) == TRUE

Just_isJust == TRUE
Nothing_isJust == FALSE
\* m.isJust(), dispatched on the class of the object.
isJust(h, m) == IF h[m].tag = "Just" THEN Just_isJust ELSE Nothing_isJust

\* m.fold(match) with match = [just |-> a closure, nothing |-> a value].
Just_fold(h, m, match) == Invoke(match.just, h, h[m].value)
Nothing_fold(h, m, match) == Ret(h, match.nothing, 0)
\* m.fold(match), dispatched on the class of the object.
Maybe_fold(h, m, match) ==
  IF h[m].tag = "Just" THEN Just_fold(h, m, match)
  ELSE Nothing_fold(h, m, match)

id(a) == a

of(h, value) == NewJust(h, value)
zero(h) == NewNothing(h)

ApplyPrim(p, a) ==
  CASE p = "inc" -> Num(a.num + 1)
    [] p = "dbl" -> Num(2 * a.num)
    [] p = "id" -> id(a)
    [] p = "constTrue" -> Bool(TRUE)

\* (a) => g(f(a)) for fn = <<f, g>>.
RECURSIVE ApplyUnary(_, _)
ApplyUnary(fn, a) ==
  IF fn = <<>> THEN a ELSE ApplyUnary(Tail(fn), ApplyPrim(Head(fn), a))

(***************************************************************************)
(* lib/maybe.ts: the functions of module Maybe.  In each object literal    *)
(* {just: ..., nothing: zero()} the zero() is evaluated, and its Nothing   *)
(* allocated, before fold is called.                                       *)
(***************************************************************************)
\* fold(match)(m), with match = {just: fn, nothing: nothing} from the caller.
fold(fn, nothing, h, m) ==
  Maybe_fold(h, m, [just |-> [code |-> "caller", fn |-> fn],
                    nothing |-> nothing])

\* map wrapping the old value: fn is never applied.
mapWithoutFn(fn, h, ma) ==
  LET z == zero(h)
  IN  IF h[ma].tag = "Just"
      THEN [NewJust(z.heap, h[ma].value) EXCEPT !.calls = 1]
      ELSE z

\* (a) => { return new Just(fn(a)) }
map_just(c, h, a) ==
  [NewJust(h, ApplyUnary(c.fn, a)) EXCEPT !.calls = 1]

\* map(fn)(ma).
map(fn, h, ma) ==
  LET z == zero(h)
  IN  Maybe_fold(z.heap, ma, [just |-> [code |-> "map.just", fn |-> fn],
                              nothing |-> z.val])

\* bind calling fn on the value of a Just and on a missing value alike.
bindCallsFnOnNothing(fn, h, ma) ==
  LET z == zero(h)
  IN  IF h[ma].tag = "Just"
      THEN [ApplyKleisli(fn, z.heap, h[ma].value) EXCEPT !.calls = 1]
      ELSE [z EXCEPT !.calls = 1]

\* (a) => { return fn(a) }
bind_just(c, h, a) == [ApplyKleisli(c.fn, h, a) EXCEPT !.calls = 1]

\* bind(fn)(ma).
bind(fn, h, ma) ==
  LET z == zero(h)
  IN  Maybe_fold(z.heap, ma, [just |-> [code |-> "bind.just", fn |-> fn],
                              nothing |-> z.val])

\* A caller's (a) => Maybe<B>: of, a partial halving, the constant zero(), and
\* for <<f, g>> the function (a) => bind(g)(f(a)).
ApplyKleisli(fn, h, a) ==
  IF Len(fn) > 1
  THEN LET r == ApplyKleisli(<<Head(fn)>>, h, a)
       IN  bind(Tail(fn), r.heap, r.val.ref)
  ELSE CASE Head(fn) = "of" -> of(h, a)
         [] Head(fn) = "half" ->
              IF a.num % 2 = 0 THEN of(h, Num(a.num \div 2)) ELSE zero(h)
         [] Head(fn) = "none" -> zero(h)

\* zipWith passing the two values to fn in the wrong order.
zipWithSwapped(fn, h, ma, mb) ==
  LET z1 == zero(h)
      z2 == zero(z1.heap)
  IN  IF h[ma].tag = "Nothing" THEN z1
      ELSE IF h[mb].tag = "Nothing" THEN z2
      ELSE [of(z2.heap, ApplyBinary(fn, h[mb].value, h[ma].value))
              EXCEPT !.calls = 1]

\* (b) => { return of(fn(a, b)); }
zipWith_just_just(c, h, b) ==
  [of(h, ApplyBinary(c.fn, c.a, b)) EXCEPT !.calls = 1]

\* (a) => { return mb.fold({just: ..., nothing: zero<R>()}) }
zipWith_just(c, h, a) ==
  LET z == zero(h)
  IN  Maybe_fold(z.heap, c.mb,
        [just |-> [code |-> "zipWith.just.just", fn |-> c.fn, a |-> a],
         nothing |-> z.val])

\* zipWith(fn)(ma, mb).
zipWith(fn, h, ma, mb) ==
  LET z == zero(h)
  IN  Maybe_fold(z.heap, ma,
        [just |-> [code |-> "zipWith.just", fn |-> fn, mb |-> mb],
         nothing |-> z.val])

\* zip(ma, mb).
zip(h, ma, mb) == zipWith(<<"Tuple.of">>, h, ma, mb)

\* (a) => { return of(f(a)); }
ap_just_just(c, h, a) ==
  [of(h, ApplyUnary(c.f.fn, a)) EXCEPT !.calls = 1]

\* (f) => { return ma.fold({just: ..., nothing: zero<B>()}) }
ap_just(c, h, f) ==
  LET z == zero(h)
  IN  Maybe_fold(z.heap, c.ma,
        [just |-> [code |-> "ap.just.just", f |-> f], nothing |-> z.val])

\* ap(mf, ma).
ap(h, mf, ma) ==
  LET z == zero(h)
  IN  Maybe_fold(z.heap, mf,
        [just |-> [code |-> "ap.just", ma |-> ma], nothing |-> z.val])

\* or rebuilding the Just it found instead of returning it.
orRebuilds(h, m1, m2) ==
  IF h[m1].tag = "Just" THEN of(h, h[m1].value) ELSE Ret(h, Ref(m2), 0)

\* (_) => { return m1; }
or_just(c, h, a) == Ret(h, Ref(c.m1), 0)

\* or(m1, m2).
or(h, m1, m2) ==
  Maybe_fold(h, m1, [just |-> [code |-> "or.just", m1 |-> m1],
                     nothing |-> Ref(m2)])

\* The call of closure c on a.
Invoke(c, h, a) ==
  CASE c.code = "caller" -> Ret(h, ApplyUnary(c.fn, a), 1)
    [] c.code = "id" -> Ret(h, id(a), 0)
    [] c.code = "map.just" -> map_just(c, h, a)
    [] c.code = "bind.just" -> bind_just(c, h, a)
    [] c.code = "zipWith.just" -> zipWith_just(c, h, a)
    [] c.code = "zipWith.just.just" -> zipWith_just_just(c, h, a)
    [] c.code = "ap.just" -> ap_just(c, h, a)
    [] c.code = "ap.just.just" -> ap_just_just(c, h, a)
    [] c.code = "or.just" -> or_just(c, h, a)

\* The callback leftmost passes to forEach: its return value for element v.
leftmostCallback(h, v) == IF isJust(h, v) THEN Ref(v) ELSE Undefined

\* leftmost(...maybes).  forEach calls the callback on every element and
\* discards what it returns; the function then returns zero().
leftmost(h, maybes) ==
  LET discarded == [i \in 1..Len(maybes) |-> leftmostCallback(h, maybes[i])]
  IN  zero(h)

\* maybes[i] for a JavaScript (0-based) index i.
Index(maybes, i) ==
  IF i >= 0 /\ i < Len(maybes) THEN Ref(maybes[i + 1]) ELSE Undefined

\* The loop of rightmost from index i on: for (...; 0 >= i; i--).  Calling
\* isJust on undefined throws a TypeError.
RECURSIVE rightmostLoop(_, _, _)
rightmostLoop(h, maybes, i) ==
  IF 0 >= i
  THEN LET x == Index(maybes, i)
       IN  IF x = Undefined THEN Throw(h, TypeError, 0)
           ELSE IF isJust(h, x.ref) THEN Ret(h, x, 0)
           ELSE rightmostLoop(h, maybes, i - 1)
  ELSE zero(h)

\* rightmost(...maybes).
rightmost(h, maybes) == rightmostLoop(h, maybes, Len(maybes))

\* guard(b).
guard(h, b) == IF b THEN of(h, Unit) ELSE zero(h)

(***************************************************************************)
(* lib/maybe.ts: the methods of class Maybe                                *)
(***************************************************************************)
Maybe_map(fn, h, this) == map(fn, h, this)
Maybe_zip(h, this, mb) == zip(h, this, mb)
\* The zipWith method with the receiver as second Maybe.
Maybe_zipWithReceiverSecond(h, this, mb, fn) == zipWith(fn, h, mb, this)
Maybe_zipWith(h, this, mb, fn) == zipWith(fn, h, this, mb)
Maybe_bind(fn, h, this) == bind(fn, h, this)
Maybe_or(h, this, m) == or(h, this, m)
Maybe_orElse(h, this, def) ==
  Maybe_fold(h, this, [just |-> [code |-> "id"], nothing |-> def])

(***************************************************************************)
(* The state machine: the caller builds Maybe values, then makes one call. *)
(***************************************************************************)
Nums == {Num(n) : n \in 0..MaxVal}
UnaryFns == {<<p>> : p \in UnaryPrims}
KleisliFns == {<<p>> : p \in KleisliPrims}
Refs == 1..Len(heap)

\* The static types of the arguments: a Maybe<number>, a Maybe<(a) => b>.
IsMaybeNum(h, m) ==
  IF h[m].tag = "Nothing" THEN TRUE ELSE "num" \in DOMAIN h[m].value
IsMaybeFn(h, m) ==
  IF h[m].tag = "Nothing" THEN TRUE ELSE "fn" \in DOMAIN h[m].value

NoCall == [op |-> "none", fn |-> <<>>, args |-> <<>>, vals |-> <<>>, len |-> 0]
NoRet == [val |-> Undefined, calls |-> 0, threw |-> FALSE]

Init ==
  /\ heap = <<>>
  /\ pc = "inputs"
  /\ call = NoCall
  /\ ret = NoRet

\* The call op with function fn, Maybe arguments args and plain arguments
\* vals ends with outcome r.
Returns(op, fn, args, vals, r) ==
  /\ pc = "inputs"
  /\ pc' = "returned"
  /\ call' = [op |-> op, fn |-> fn, args |-> args, vals |-> vals,
              len |-> Len(heap)]
  /\ heap' = r.heap
  /\ ret' = [val |-> r.val, calls |-> r.calls, threw |-> r.threw]

Of ==
  \E v \in Nums \cup {Fn(f) : f \in UnaryFns} :
    /\ pc = "inputs"
    /\ Len(heap) < MaxArgs
    /\ heap' = of(heap, v).heap
    /\ UNCHANGED <<pc, call, ret>>

Zero ==
  /\ pc = "inputs"
  /\ Len(heap) < MaxArgs
  /\ heap' = zero(heap).heap
  /\ UNCHANGED <<pc, call, ret>>

FoldCall ==
  \E fn \in UnaryFns, nothing \in Nums, m \in Refs :
    /\ IsMaybeNum(heap, m)
    /\ Returns("fold", fn, <<m>>, <<nothing>>, fold(fn, nothing, heap, m))

IsJustCall ==
  \E m \in Refs :
    Returns("isJust", <<>>, <<m>>, <<>>, Ret(heap, Bool(isJust(heap, m)), 0))

MapCall ==
  \E fn \in UnaryFns, m \in Refs :
    /\ IsMaybeNum(heap, m)
    /\ Returns("map", fn, <<m>>, <<>>, map(fn, heap, m))

BindCall ==
  \E fn \in KleisliFns, m \in Refs :
    /\ IsMaybeNum(heap, m)
    /\ Returns("bind", fn, <<m>>, <<>>, bind(fn, heap, m))

ZipWithCall ==
  \E fn \in BinaryFns, ma \in Refs, mb \in Refs :
    /\ IsMaybeNum(heap, ma)
    /\ IsMaybeNum(heap, mb)
    /\ Returns("zipWith", fn, <<ma, mb>>, <<>>, zipWith(fn, heap, ma, mb))

ZipCall ==
  \E ma \in Refs, mb \in Refs :
    Returns("zip", <<>>, <<ma, mb>>, <<>>, zip(heap, ma, mb))

ApCall ==
  \E mf \in Refs, ma \in Refs :
    /\ IsMaybeFn(heap, mf)
    /\ IsMaybeNum(heap, ma)
    /\ Returns("ap", <<>>, <<mf, ma>>, <<>>, ap(heap, mf, ma))

OrCall ==
  \E m1 \in Refs, m2 \in Refs :
    Returns("or", <<>>, <<m1, m2>>, <<>>, or(heap, m1, m2))

\* leftmost and rightmost are called with the first k Maybes built.
LeftmostCall ==
  \E k \in 0..Len(heap) :
    LET maybes == [i \in 1..k |-> i]
    IN  Returns("leftmost", <<>>, maybes, <<>>, leftmost(heap, maybes))

RightmostCall ==
  \E k \in 0..Len(heap) :
    LET maybes == [i \in 1..k |-> i]
    IN  Returns("rightmost", <<>>, maybes, <<>>, rightmost(heap, maybes))

GuardCall ==
  \E b \in BOOLEAN :
    /\ pc = "inputs"
    /\ Returns("guard", <<>>, <<>>, <<Bool(b)>>, guard(heap, b))

MethodMapCall ==
  \E fn \in UnaryFns, m \in Refs :
    /\ IsMaybeNum(heap, m)
    /\ Returns("m.map", fn, <<m>>, <<>>, Maybe_map(fn, heap, m))

MethodZipCall ==
  \E m \in Refs, mb \in Refs :
    Returns("m.zip", <<>>, <<m, mb>>, <<>>, Maybe_zip(heap, m, mb))

MethodZipWithCall ==
  \E fn \in BinaryFns, m \in Refs, mb \in Refs :
    /\ IsMaybeNum(heap, m)
    /\ IsMaybeNum(heap, mb)
    /\ Returns("m.zipWith", fn, <<m, mb>>, <<>>,
               Maybe_zipWith(heap, m, mb, fn))

MethodBindCall ==
  \E fn \in KleisliFns, m \in Refs :
    /\ IsMaybeNum(heap, m)
    /\ Returns("m.bind", fn, <<m>>, <<>>, Maybe_bind(fn, heap, m))

MethodOrCall ==
  \E m \in Refs, m2 \in Refs :
    Returns("m.or", <<>>, <<m, m2>>, <<>>, Maybe_or(heap, m, m2))

MethodOrElseCall ==
  \E m \in Refs, def \in Nums :
    /\ IsMaybeNum(heap, m)
    /\ Returns("m.orElse", <<>>, <<m>>, <<def>>, Maybe_orElse(heap, m, def))

\* The Tuple functions use no Maybe: they are called on an empty heap.
TupleOfCall ==
  \E a \in Nums, b \in Nums :
    /\ heap = <<>>
    /\ Returns("Tuple.of", <<>>, <<>>, <<a, b>>, Ret(heap, Tuple_of(a, b), 0))

TupleCall ==
  \E fn \in BinaryFns, a \in Nums, b \in Nums :
    /\ heap = <<>>
    /\ Returns("tuple", fn, <<>>, <<a, b>>,
               Ret(heap, ApplyOnTuple(tuple(fn), Tuple_of(a, b)), 1))

CurryTupleCall ==
  \E fn \in BinaryFns, a \in Nums, b \in Nums :
    /\ heap = <<>>
    /\ Returns("curryTuple", fn, <<>>, <<a, b>>,
               Ret(heap, curryTuple(tuple(fn), a, b), 1))

CurryCall ==
  \E fn \in BinaryFns, a \in Nums, b \in Nums :
    /\ heap = <<>>
    /\ Returns("curry", fn, <<>>, <<a, b>>, Ret(heap, curry(fn, a, b), 1))

Next ==
  \/ Of
  \/ Zero
  \/ FoldCall
  \/ IsJustCall
  \/ MapCall
  \/ BindCall
  \/ ZipWithCall
  \/ ZipCall
  \/ ApCall
  \/ OrCall
  \/ LeftmostCall
  \/ RightmostCall
  \/ GuardCall
  \/ MethodMapCall
  \/ MethodZipCall
  \/ MethodZipWithCall
  \/ MethodBindCall
  \/ MethodOrCall
  \/ MethodOrElseCall
  \/ TupleOfCall
  \/ TupleCall
  \/ CurryTupleCall
  \/ CurryCall

Spec == Init /\ [][Next]_vars

(***************************************************************************)
(* The claims.  In a state with pc = "returned", call holds the call that  *)
(* was made, PreHeap the heap it was made on, heap the heap it left and    *)
(* ret what it returned.                                                   *)
(***************************************************************************)
Returned(op) == pc = "returned" /\ call.op = op
PreHeap == SubSeq(heap, 1, call.len)
JustObj(v) == [tag |-> "Just", value |-> v]
NothingObj == [tag |-> "Nothing"]
IsJustAt(m) == heap[m].tag = "Just"
\* The Maybe object a call returned.
RetObj == heap[ret.val.ref]
Deref(r) == r.heap[r.val.ref]
\* The indices of the Justs among the arguments of leftmost or rightmost.
JustIndices == {i \in 1..Len(call.args) : IsJustAt(call.args[i])}
Least(S) == CHOOSE i \in S : \A j \in S : i <= j
Greatest(S) == CHOOSE i \in S : \A j \in S : i >= j

\* C1: leftmost(...maybes) returns the Just of smallest index among maybes,
\* and a Nothing when maybes holds no Just (the empty sequence included).
C1_LeftmostReturnsFirstJust ==
  Returned("leftmost") =>
    /\ ~ret.threw
    /\ "ref" \in DOMAIN ret.val
    /\ IF JustIndices = {} THEN RetObj = NothingObj
       ELSE ret.val = Ref(call.args[Least(JustIndices)])

\* C2: rightmost(...maybes) returns the Just of largest index among maybes,
\* and a Nothing when maybes holds no Just (the empty sequence included).
C2_RightmostReturnsLastJust ==
  Returned("rightmost") =>
    /\ ~ret.threw
    /\ "ref" \in DOMAIN ret.val
    /\ IF JustIndices = {} THEN RetObj = NothingObj
       ELSE ret.val = Ref(call.args[Greatest(JustIndices)])

\* C3: every call of a Maybe combinator on well-formed arguments returns a
\* value and throws nothing, leftmost() and rightmost() of no argument
\* included.
C3_CombinatorsNeverThrow ==
  pc = "returned" => ~ret.threw

\* C4: the monad laws of bind, up to structural equality.  With m the
\* argument and fn the function of a call of bind: bind(fn)(m) is a Nothing,
\* and fn is not invoked, when m is a Nothing; it is fn(a), fn invoked once,
\* when m is of(a) (left identity); bind(of)(m) equals m (right identity);
\* bind(g)(bind(fn)(m)) equals bind(a => bind(g)(fn(a)))(m) for every g
\* (associativity).
C4_BindMonadLaws ==
  Returned("bind") =>
    LET m == call.args[1]
        fn == call.fn
    IN  /\ IF IsJustAt(m)
           THEN /\ RetObj = Deref(ApplyKleisli(fn, PreHeap, heap[m].value))
                /\ ret.calls = 1
           ELSE /\ RetObj = NothingObj
                /\ ret.calls = 0
        /\ Deref(bind(<<"of">>, PreHeap, m)) = heap[m]
        /\ \A g \in KleisliFns :
             Deref(bind(g, heap, ret.val.ref)) = Deref(bind(fn \o g, PreHeap, m))

C4_Witness ==
  /\ Returned("bind")
  /\ call.fn = <<"half">>
  /\ IsJustAt(call.args[1])
  /\ heap[call.args[1]].value = Num(MaxVal)
  /\ ret.calls = 1

\* C5: the functor laws of map, up to structural equality.  With m the
\* argument and fn the function of a call of map: map(fn)(m) is Just(fn(a))
\* when m is Just(a) and a Nothing when m is a Nothing; map(id)(m) equals m;
\* map(g o fn)(m) equals map(g)(map(fn)(m)) for every g.
C5_MapFunctorLaws ==
  Returned("map") =>
    LET m == call.args[1]
        fn == call.fn
    IN  /\ IF IsJustAt(m)
           THEN RetObj = JustObj(ApplyUnary(fn, heap[m].value))
           ELSE RetObj = NothingObj
        /\ Deref(map(<<"id">>, PreHeap, m)) = heap[m]
        /\ \A g \in UnaryFns :
             Deref(map(fn \o g, PreHeap, m)) = Deref(map(g, heap, ret.val.ref))

C5_Witness ==
  /\ Returned("map")
  /\ call.fn = <<"inc">>
  /\ IsJustAt(call.args[1])
  /\ RetObj = JustObj(Num(MaxVal + 1))

\* C6: zipWith(fn)(ma, mb) is Just(fn(a, b)) when ma is Just(a) and mb is
\* Just(b), and a Nothing otherwise; zip(ma, mb) equals
\* zipWith(Tuple.of)(ma, mb), that is Just({fst: a, snd: b}) or a Nothing;
\* ap(mf, ma) is Just(f(a)) when mf is Just(f) and ma is Just(a), and a
\* Nothing otherwise.
C6_BinaryCombinators ==
  LET ma == call.args[1]
      mb == call.args[2]
      both == IsJustAt(ma) /\ IsJustAt(mb)
      a == heap[ma].value
      b == heap[mb].value
  IN  /\ Returned("zipWith") =>
           IF both THEN RetObj = JustObj(ApplyBinary(call.fn, a, b))
           ELSE RetObj = NothingObj
      /\ Returned("zip") =>
           /\ RetObj = Deref(zipWith(<<"Tuple.of">>, PreHeap, ma, mb))
           /\ IF both THEN RetObj = JustObj([fst |-> a, snd |-> b])
              ELSE RetObj = NothingObj
      /\ Returned("ap") =>
           IF both THEN RetObj = JustObj(ApplyUnary(a.fn, b))
           ELSE RetObj = NothingObj

C6_Witness ==
  /\ Returned("zipWith")
  /\ call.fn = <<"sub">>
  /\ IsJustAt(call.args[1])
  /\ IsJustAt(call.args[2])
  /\ RetObj = JustObj(Num(-1))

\* C7: or(m1, m2) returns m1 itself when m1 is a Just and m2 itself
\* otherwise: the same object, and no object is built or changed.
C7_OrReturnsItsArgument ==
  Returned("or") =>
    /\ ret.val = IF IsJustAt(call.args[1]) THEN Ref(call.args[1])
                 ELSE Ref(call.args[2])
    /\ heap = PreHeap

C7_Witness ==
  /\ Returned("or")
  /\ ~IsJustAt(call.args[1])
  /\ IsJustAt(call.args[2])
  /\ call.args[1] # call.args[2]
  /\ ret.val = Ref(call.args[2])

\* C8: fold(match)(m) is match.just(value) when m is Just(value) and is
\* match.nothing, match.just not invoked, when m is a Nothing; m.isJust() is
\* true exactly when m is a Just and equals
\* fold({just: _ => true, nothing: false})(m); m.orElse(def) is the value of
\* m when m is a Just and def when m is a Nothing.
C8_EliminationConsistent ==
  LET m == call.args[1]
  IN  /\ Returned("fold") =>
           IF IsJustAt(m)
           THEN ret.val = ApplyUnary(call.fn, heap[m].value) /\ ret.calls = 1
           ELSE ret.val = call.vals[1] /\ ret.calls = 0
      /\ Returned("isJust") =>
           /\ ret.val = Bool(IsJustAt(m))
           /\ ret.val = fold(<<"constTrue">>, Bool(FALSE), PreHeap, m).val
      /\ Returned("m.orElse") =>
           ret.val = IF IsJustAt(m) THEN heap[m].value ELSE call.vals[1]

C8_Witness ==
  /\ Returned("fold")
  /\ ~IsJustAt(call.args[1])
  /\ ret.val = Num(MaxVal)
  /\ ret.calls = 0

\* C9: tuple(fn)(Tuple.of(a, b)), curry(fn)(a)(b) and
\* curryTuple(tuple(fn))(a)(b) all equal fn(a, b), so curry(fn) and
\* curryTuple(tuple(fn)) agree on every a and b; and Tuple.of(a, b) has
\* fst = a and snd = b.
C9_TupleAdapters ==
  LET a == call.vals[1]
      b == call.vals[2]
  IN  /\ Returned("tuple") => ret.val = ApplyBinary(call.fn, a, b)
      /\ Returned("curry") =>
           /\ ret.val = ApplyBinary(call.fn, a, b)
           /\ ret.val = curryTuple(tuple(call.fn), a, b)
      /\ Returned("curryTuple") => ret.val = ApplyBinary(call.fn, a, b)
      /\ Returned("Tuple.of") => ret.val.fst = a /\ ret.val.snd = b

C9_Witness ==
  /\ Returned("curryTuple")
  /\ call.fn = <<"sub">>
  /\ call.vals = <<Num(0), Num(MaxVal)>>
  /\ ret.val = Num(-MaxVal)

\* C10: a method of a Maybe m gives what the function of the same name
\* gives with m as its first Maybe argument: the same heap and the same
\* returned value, for map, bind, zip, zipWith and or.
C10_MethodsDelegate ==
  LET m == call.args[1]
      Same(r) == heap = r.heap /\ ret.val = r.val /\ ~r.threw
  IN  /\ Returned("m.map") => Same(map(call.fn, PreHeap, m))
      /\ Returned("m.bind") => Same(bind(call.fn, PreHeap, m))
      /\ Returned("m.zip") => Same(zip(PreHeap, m, call.args[2]))
      /\ Returned("m.zipWith") =>
           Same(zipWith(call.fn, PreHeap, m, call.args[2]))
      /\ Returned("m.or") => Same(or(PreHeap, m, call.args[2]))

C10_Witness ==
  /\ Returned("m.zipWith")
  /\ call.fn = <<"sub">>
  /\ IsJustAt(call.args[1])
  /\ IsJustAt(call.args[2])
  /\ RetObj = JustObj(Num(MaxVal))
====
